---------------------------- MODULE Spec2Model ----------------------------
(***************************************************************************)
(* Air Quality Index monitor: the category classifier (aqi_utils.py), the  *)
(* trend projector (predictor.py), the single-city report builder and the  *)
(* multi-city aggregator (aqi_app.py).                                     *)
(*                                                                         *)
(* Numbers.  Python's readings and growth rates are reals; they are kept   *)
(* here as fixed-point integers in fiftieths (Unit), so 50.5 is 2525 and   *)
(* the rate 0.04 is 2.  A projected value is a product reading * factor    *)
(* and is kept in units of 1/(Unit*Unit), so 104 is 260000.  Arithmetic    *)
(* is exact: floating-point rounding is not modelled.                      *)
(*                                                                         *)
(* Exceptions.  A Python call either returns a value or raises; an         *)
(* operator that models a call that can raise yields Return(v) or          *)
(* Raise(type, msg).                                                       *)
(***************************************************************************)
EXTENDS Integers, Sequences, FiniteSets, TLC

VARIABLES
    pc,          \* get_multiple_cities_report: "idle", "loop", "done", "raised"
    cities,      \* its argument: the list of requested city names
    idx,         \* position of the for loop (1-based index of the next city)
    report,      \* the report dict being built: cities (insertion-ordered) + summary
    valid_aqis,  \* list of (city, aqi) pairs of the successful cities
    fetchTrace,  \* the calls made to data_fetcher.fetch_aqi: <<city, outcome>> in call order
    escaped,     \* the exception that left get_multiple_cities_report, or NoException
    lastInfo,    \* the last get_city_aqi_info call: its city, its fetch outcome, its outcome
    clsIn,       \* argument of the last get_aqi_category call
    clsOut,      \* its outcome
    rateArg,     \* the growth_rate argument the AQIPredictor was constructed with
    growth_rate, \* AQIPredictor.growth_rate
    model,       \* AQIPredictor.model: the LinearRegression, unfitted or as last fitted
    predIn,      \* arguments of the last predict_aqi / get_prediction_summary call
    predOut,     \* outcome of that call when it was predict_aqi
    predSummary, \* outcome of that call when it was get_prediction_summary
    refitted     \* whether that call's fit replaced parameters an earlier call had fitted

vars == <<pc, cities, idx, report, valid_aqis, fetchTrace, escaped, lastInfo,
          clsIn, clsOut, rateArg, growth_rate, model, predIn, predOut, predSummary,
          refitted>>

aggVars == <<pc, cities, idx, report, valid_aqis, fetchTrace, escaped, lastInfo>>
clsVars == <<clsIn, clsOut>>
predVars == <<rateArg, growth_rate, model, predIn, predOut, predSummary, refitted>>
predCallVars == <<predIn, predOut, predSummary, refitted>>

---------------------------------------------------------------------------
(* Fixed-point unit, outcomes of calls, values read from the JSON feed.    *)

\* a reading is kept in halves, a rate in 25ths: both are fiftieths
Unit == 2 * 25

Return(v) == [raised |-> FALSE, value |-> v]
Raise(t, m) == [raised |-> TRUE, type |-> t, msg |-> m]

\* data['data']['aqi'] is whatever the feed holds: a number, or a string
\* such as the "-" the feed uses for a station without a reading.
JNum(n) == [kind |-> "number", n |-> n]
JStr == [kind |-> "string", n |-> 0]
IsNumber(j) == j.kind = "number"

---------------------------------------------------------------------------
(* str.capitalize(): first character upper-cased, the rest lower-cased.    *)

Upper(c) ==
    CASE c = "a" -> "A" [] c = "b" -> "B" [] c = "c" -> "C"
      [] c = "d" -> "D" [] c = "e" -> "E" [] OTHER -> c

Lower(c) ==
    CASE c = "A" -> "a" [] c = "B" -> "b" [] c = "C" -> "c"
      [] c = "D" -> "d" [] c = "E" -> "e" [] OTHER -> c

capitalize(s) ==
    [k \in 1..Len(s) |-> IF k = 1 THEN Upper(s[k]) ELSE Lower(s[k])]

---------------------------------------------------------------------------
(* config.py                                                               *)

AQI_CATEGORIES ==
    << <<0,   50,  "Good", "#00e400">>,
       <<51,  100, "Moderate", "#ffff00">>,
       <<101, 150, "Unhealthy for Sensitive Groups", "#ff7e00">>,
       <<151, 200, "Unhealthy", "#ff0000">>,
       <<201, 300, "Very Unhealthy", "#8f3f97">>,
       <<301, 500, "Hazardous", "#7e0023">> >>

DEFAULT_PREDICTION_DAYS == 7
PREDICTION_GROWTH_RATE == 2      \* 0.04 in fiftieths

---------------------------------------------------------------------------
(* aqi_utils.py                                                            *)

\* low <= aqi <= high, aqi in fiftieths
InBandStrictHigh(band, aqi) == band[1] * Unit <= aqi /\ aqi < band[2] * Unit
InBand(band, aqi) == band[1] * Unit <= aqi /\ aqi <= band[2] * Unit

RECURSIVE ScanCategories(_, _)
ScanCategories(k, aqi) ==
    IF k > Len(AQI_CATEGORIES) THEN <<"Unknown", "gray">>
    ELSE IF InBand(AQI_CATEGORIES[k], aqi)
         THEN <<AQI_CATEGORIES[k][3], AQI_CATEGORIES[k][4]>>
         ELSE ScanCategories(k + 1, aqi)

\* get_aqi_category(aqi): comparing an int with a str raises TypeError
get_aqi_category(j) ==
    IF IsNumber(j) THEN Return(ScanCategories(1, j.n))
    ELSE Raise("TypeError", "'<=' not supported between instances of 'int' and 'str'")

\* validate_aqi(aqi): float("-") raises ValueError, which is caught
validate_aqi(j) ==
    IF IsNumber(j) THEN 0 <= j.n /\ j.n <= 500 * Unit
    ELSE FALSE

---------------------------------------------------------------------------
(* predictor.py                                                            *)

\* an optional argument is <<>> (None) or <<v>>
None == <<>>
Some(v) == <<v>>

\* AQIPredictor.__init__: self.growth_rate = growth_rate or PREDICTION_GROWTH_RATE
\* (`or` takes the default for None and for every falsy rate, 0 included)
InitGrowthRate(arg) ==
    IF arg = None \/ arg[1] = 0
    THEN PREDICTION_GROWTH_RATE
    ELSE arg[1]

RECURSIVE SumSeq(_)
SumSeq(s) == IF s = <<>> THEN 0 ELSE s[1] + SumSeq(Tail(s))

\* X = [i + 1 for i in range(days)]
TrainX(days) == [k \in 1..days |-> k]

\* y = [current_aqi * (1 + growth_rate * i) for i in range(days)], in 1/Unit^2
TrainY(current, rate, days) ==
    [k \in 1..days |-> current * (Unit + rate * (k - 1))]

\* LinearRegression().fit(X, y): ordinary least squares on one feature.
\* With dx = 2x - (n+1) (twice the centred feature; the features are 1..n):
\*   slope = 2 * sum(dx*y) / sum(dx*dx),   mean = sum(y) / n
\* One sample has sum(dx*dx) = 0 and the minimum-norm solution, slope 0.
\* The training signal is affine with an integer slope, so the division
\* of the slope is exact.
Centred(X) == [k \in 1..Len(X) |-> 2 * X[k] - (Len(X) + 1)]

Fit(X, y) ==
    LET dx == Centred(X)
        sxy == SumSeq([k \in 1..Len(X) |-> dx[k] * y[k]])
        sxx == SumSeq([k \in 1..Len(X) |-> dx[k] * dx[k]])
    IN  [n |-> Len(X),
         sumY |-> SumSeq(y),
         slope |-> IF sxx = 0 THEN 0 ELSE (2 * sxy) \div sxx]

\* model.predict(X): mean + slope * (x - mean(x)), at each feature
Predict(fitted, X) ==
    LET dx == Centred(X)
    IN  [k \in 1..Len(X) |->
            (2 * fitted.sumY + fitted.n * fitted.slope * dx[k]) \div (2 * fitted.n)]

\* np.clip(predictions, 0, 500)
ClipNone(v) == v
Clip(v) ==
    IF v < 0 THEN 0
    ELSE IF v > 500 * Unit * Unit THEN 500 * Unit * Unit
    ELSE v

\* self.model.fit(X, y) on a model whose parameters are m: the fit computes
\* the parameters anew from X and y, and what an earlier fit left is discarded
RefitKeepsFitted(m, X, y) == IF m.n > 0 THEN m ELSE Fit(X, y)
Refit(m, X, y) == Fit(X, y)

\* the input validation of fit: a training set without samples (days <= 0
\* makes range(days) empty) is rejected with ValueError
FitRejectsNothing(X) == FALSE
FitRejects(X) == Len(X) = 0

\* predict_aqi(current_aqi, days) on a predictor whose growth rate is `rate`
\* and whose model holds the parameters m: the outcome of the call and the
\* parameters the model holds after it.  A str reading cannot be multiplied
\* by a float (TypeError, raised while y is built).
PredictOn(m, current, days, rate) ==
    LET d == IF days = None THEN DEFAULT_PREDICTION_DAYS ELSE days[1]
    IN  IF d >= 1 /\ ~IsNumber(current)
        THEN [out |-> Raise("TypeError", "can't multiply sequence by non-int of type 'float'"),
              model |-> m]
        ELSE IF FitRejects(TrainX(d))
        THEN [out |-> Raise("ValueError", "Found array with 0 sample(s)"),
              model |-> m]
        ELSE LET X == TrainX(d)
                 y == TrainY(current.n, rate, d)
                 fitted == Refit(m, X, y)
                 p == Predict(fitted, X)
             IN  [out |-> Return([k \in 1..Len(X) |-> Clip(p[k])]),
                  model |-> fitted]

\* predict_aqi(current_aqi, days) on the predictor of this state (self.model)
predict_aqi(current, days, rate) == PredictOn(model, current, days, rate).out

RECURSIVE MinSeq(_)
MinSeq(s) ==
    IF Len(s) = 1 THEN s[1]
    ELSE LET m == MinSeq(Tail(s)) IN IF s[1] <= m THEN s[1] ELSE m

RECURSIVE MaxSeq(_)
MaxSeq(s) ==
    IF Len(s) = 1 THEN s[1]
    ELSE LET m == MaxSeq(Tail(s)) IN IF s[1] >= m THEN s[1] ELSE m

\* a quotient that need not be an integer is kept as numerator and denominator
Ratio(num, den) == [num |-> num, den |-> den]

\* 'increasing' if predictions[-1] > predictions[0] else 'decreasing'
TrendOfNonStrict(predictions) ==
    IF predictions[Len(predictions)] >= predictions[1] THEN "increasing" ELSE "decreasing"
TrendOf(predictions) ==
    IF predictions[Len(predictions)] > predictions[1] THEN "increasing" ELSE "decreasing"

\* get_prediction_summary(current_aqi, days): runs predict_aqi again; np.min
\* of an empty array raises ValueError
get_prediction_summary(current, days, rate) ==
    LET r == predict_aqi(current, days, rate)
    IN  IF r.raised THEN r
        ELSE IF r.value = <<>>
        THEN Raise("ValueError", "zero-size array to reduction operation minimum which has no identity")
        ELSE LET predictions == r.value
             IN  Return([predictions   |-> predictions,
                         min_predicted |-> MinSeq(predictions),
                         max_predicted |-> MaxSeq(predictions),
                         avg_predicted |-> Ratio(SumSeq(predictions), Len(predictions)),
                         trend |-> TrendOf(predictions)])

---------------------------------------------------------------------------
(* data_fetcher.py: the outcomes of fetch_aqi(city).  The feed is outside  *)
(* the program, so each call's outcome is an input.                        *)

\* readings the feed may return: 40, 50.5 and 300
FetchValues == {40 * Unit, (101 * Unit) \div 2, 300 * Unit}

\* fetch_aqi raises Exception for a bad status, a network error or a missing
\* key; an error it does not wrap (a ValueError of response.json()) leaves it
\* as raised
FetchErrors ==
    {Raise("Exception", "Failed to fetch AQI. Make sure the city name is supported."),
     Raise("ValueError", "Expecting value: line 1 column 1 (char 0)")}

\* classes derived from Exception, the ones `except Exception` catches
ExceptionSubclasses == {"Exception", "ValueError", "TypeError", "KeyError"}

---------------------------------------------------------------------------
(* aqi_app.py                                                              *)

\* except Exception as e
CaughtOnlyPlainException(e) == e.type = "Exception"
CaughtOnlyFetchErrors(e) == e.type \in {"Exception", "ValueError"}
CaughtByExceptException(e) == e.type \in ExceptionSubclasses

\* AQIApp.__init__: self.predictor = AQIPredictor()
AppGrowthRateHalved == InitGrowthRate(Some(1))
AppGrowthRate == InitGrowthRate(None)

\* the body of the try block of get_city_aqi_info, given the outcome of
\* fetch_aqi(city): the first call that raises ends it
TryCityInfo(city, fetched) ==
    IF fetched.raised THEN fetched
    ELSE LET current_aqi == fetched.value
             cat == get_aqi_category(current_aqi)
             predictions == predict_aqi(current_aqi, None, AppGrowthRate)
             prediction_summary == get_prediction_summary(current_aqi, None, AppGrowthRate)
         IN  IF cat.raised THEN cat
             ELSE IF predictions.raised THEN predictions
             ELSE IF prediction_summary.raised THEN prediction_summary
             ELSE Return([city |-> capitalize(city),
                          current_aqi |-> current_aqi.n,
                          category |-> cat.value[1],
                          color |-> cat.value[2],
                          predictions |-> predictions.value,
                          prediction_summary |-> prediction_summary.value,
                          status |-> "success"])

\* get_city_aqi_info(city), given the outcome of its one fetch_aqi(city) call
get_city_aqi_info(city, fetched) ==
    LET r == TryCityInfo(city, fetched)
    IN  IF ~r.raised THEN r
        ELSE IF CaughtByExceptException(r)
        THEN Return([city |-> capitalize(city), error |-> r.msg, status |-> "error"])
        ELSE r

\* the calls get_city_aqi_info(city) makes to fetch_aqi: one, with the name as given
FetchCallsCapitalized(city, fetched) == << <<capitalize(city), fetched>> >>
FetchCalls(city, fetched) == << <<city, fetched>> >>

\* report = {'cities': {}, 'summary': {...}}
InitialReportUndefinedAverage(cs) ==
    [cities |-> <<>>,
     summary |-> [total_cities |-> Len(cs),
                  successful_fetches |-> 0,
                  failed_fetches |-> 0,
                  average_aqi |-> Ratio(0, 0),
                  highest_aqi_city |-> None,
                  lowest_aqi_city |-> None]]
InitialReport(cs) ==
    [cities |-> <<>>,
     summary |-> [total_cities |-> Len(cs),
                  successful_fetches |-> 0,
                  failed_fetches |-> 0,
                  average_aqi |-> Ratio(0, 1),
                  highest_aqi_city |-> None,
                  lowest_aqi_city |-> None]]

\* report['cities'][city] = city_info on an insertion-ordered dict, kept as the
\* sequence of its items: a new key is appended, a present key keeps its place
DictKeys(d) == [k \in 1..Len(d) |-> d[k].key]
DictSetMoveToEnd(d, key, val) ==
    LET others == SelectSeq(d, LAMBDA e : e.key # key)
    IN  Append(others, [key |-> key, val |-> val])
DictSet(d, key, val) ==
    IF \E k \in 1..Len(d) : d[k].key = key
    THEN [k \in 1..Len(d) |-> IF d[k].key = key THEN [key |-> key, val |-> val] ELSE d[k]]
    ELSE Append(d, [key |-> key, val |-> val])

\* sum(aqi_values) / len(aqi_values)
AverageFloor(aqi_values) == Ratio(SumSeq(aqi_values) \div Len(aqi_values), 1)
Average(aqi_values) == Ratio(SumSeq(aqi_values), Len(aqi_values))

\* max(valid_aqis, key=lambda x: x[1]): the running maximum is replaced only
\* by a strictly greater item, so the first of several maxima is returned
RECURSIVE MaxFrom(_, _, _, _)
MaxFrom(s, k, best, lastWins) ==
    IF k > Len(s) THEN best
    ELSE MaxFrom(s, k + 1,
                 IF s[k][2] > best[2] \/ (lastWins /\ s[k][2] = best[2]) THEN s[k] ELSE best,
                 lastWins)
PyMaxLastWins(s) == MaxFrom(s, 2, s[1], TRUE)
PyMax(s) == MaxFrom(s, 2, s[1], FALSE)

\* min(valid_aqis, key=lambda x: x[1]): likewise with strictly less
RECURSIVE MinFrom(_, _, _)
MinFrom(s, k, best) ==
    IF k > Len(s) THEN best
    ELSE MinFrom(s, k + 1, IF s[k][2] < best[2] THEN s[k] ELSE best)
PyMin(s) == MinFrom(s, 2, s[1])

\* the statistics block after the loop
SummaryStatistics(summary, valid) ==
    IF valid # <<>>
    THEN LET aqi_values == [k \in 1..Len(valid) |-> valid[k][2]]
             highest == PyMax(valid)
             lowest == PyMin(valid)
         IN  [summary EXCEPT
                !.average_aqi = Average(aqi_values),
                !.highest_aqi_city = Some([city |-> highest[1], aqi |-> highest[2]]),
                !.lowest_aqi_city = Some([city |-> lowest[1], aqi |-> lowest[2]])]
    ELSE summary

---------------------------------------------------------------------------
(* Inputs and bounds                                                       *)

MaxCities == 3

\* city names as typed: "a", "Bc", "dE"
Names == { <<"a">>, <<"B", "c">>, <<"d", "E">> }

RECURSIVE SeqsUpTo(_, _)
SeqsUpTo(S, n) ==
    IF n = 0 THEN {<<>>}
    ELSE LET shorter == SeqsUpTo(S, n - 1)
         IN  shorter \cup {Append(q, x) : q \in shorter, x \in S}

NoException == [raised |-> FALSE, value |-> "none"]
NoCall == [called |-> FALSE]

\* LinearRegression() before its first fit
Unfitted == [n |-> 0, sumY |-> 0, slope |-> 0]

---------------------------------------------------------------------------
(* get_multiple_cities_report(cities)                                      *)

\* the call: lines 167-179
CallReport(cs) ==
    /\ pc = "idle"
    /\ cities' = cs
    /\ report' = InitialReport(cs)
    /\ valid_aqis' = <<>>
    /\ idx' = 1
    /\ pc' = "loop"
    /\ UNCHANGED <<fetchTrace, escaped, lastInfo, clsVars, predVars>>

\* self.predictor.model after get_city_aqi_info: predict_aqi refits it whenever
\* the reading got as far as model.fit
ModelAfterCityInfo(m, fetched) ==
    IF ~fetched.raised /\ IsNumber(fetched.value)
    THEN Fit(TrainX(DEFAULT_PREDICTION_DAYS),
             TrainY(fetched.value.n, AppGrowthRate, DEFAULT_PREDICTION_DAYS))
    ELSE m

\* one iteration of the for loop, lines 181-190, the feed answering `fetched`
LoopBody(fetched) ==
    /\ pc = "loop"
    /\ idx <= Len(cities)
    /\ LET city == cities[idx]
           r == get_city_aqi_info(city, fetched)
       IN  /\ fetchTrace' = fetchTrace \o FetchCalls(city, fetched)
           /\ lastInfo' = [called |-> TRUE, city |-> city, fetched |-> fetched, result |-> r]
           /\ IF r.raised
              THEN /\ escaped' = r
                   /\ pc' = "raised"
                   /\ UNCHANGED <<report, valid_aqis, idx>>
              ELSE LET city_info == r.value
                       success == city_info.status = "success"
                   IN  /\ report' =
                            [cities |-> DictSet(report.cities, city, city_info),
                             summary |->
                               IF success
                               THEN [report.summary EXCEPT !.successful_fetches = @ + 1]
                               ELSE [report.summary EXCEPT !.failed_fetches = @ + 1]]
                       /\ valid_aqis' =
                            IF success
                            THEN Append(valid_aqis, <<city, city_info.current_aqi>>)
                            ELSE valid_aqis
                       /\ idx' = idx + 1
                       /\ UNCHANGED <<pc, escaped>>
    /\ model' = ModelAfterCityInfo(model, fetched)
    /\ UNCHANGED <<cities, clsVars, rateArg, growth_rate, predCallVars>>

\* after the loop: lines 192-209
FinishReport ==
    /\ pc = "loop"
    /\ idx > Len(cities)
    /\ report' = [report EXCEPT !.summary = SummaryStatistics(report.summary, valid_aqis)]
    /\ pc' = "done"
    /\ UNCHANGED <<cities, idx, valid_aqis, fetchTrace, escaped, lastInfo, clsVars, predVars>>

\* the argument: any list of at most MaxCities names, repeated names included
CityLists == SeqsUpTo(Names, MaxCities)

GetMultipleCitiesReport == pc = "idle" /\ \E cs \in CityLists : CallReport(cs)

FetchReturnsNumber == \E v \in FetchValues : LoopBody(Return(JNum(v)))
FetchReturnsString == LoopBody(Return(JStr))
FetchRaises == \E e \in FetchErrors : LoopBody(e)

InitAgg ==
    /\ pc = "idle"
    /\ cities = <<>>
    /\ idx = 1
    /\ report = InitialReport(<<>>)
    /\ valid_aqis = <<>>
    /\ fetchTrace = <<>>
    /\ escaped = NoException
    /\ lastInfo = NoCall

InitCls ==
    /\ clsIn = NoCall
    /\ clsOut = NoCall

\* AQIApp.__init__ constructs AQIPredictor() with no argument
InitPred ==
    /\ rateArg = None
    /\ growth_rate = InitGrowthRate(None)
    /\ model = Unfitted
    /\ predIn = NoCall
    /\ predOut = NoCall
    /\ predSummary = NoCall
    /\ refitted = FALSE

Init == InitAgg /\ InitCls /\ InitPred

Next ==
    \/ GetMultipleCitiesReport
    \/ FetchReturnsNumber
    \/ FetchReturnsString
    \/ FetchRaises
    \/ FinishReport

Spec == Init /\ [][Next]_vars

---------------------------------------------------------------------------
(* The classifier on its own: get_aqi_category and validate_aqi            *)

MaxReading == 502

\* every whole and every half reading from -2 to MaxReading, and the string
ClassifyInputs ==
    {JNum(h * (Unit \div 2)) : h \in (-4)..(2 * MaxReading)} \cup {JStr}

Classify(j) ==
    /\ clsIn' = [called |-> TRUE, aqi |-> j]
    /\ clsOut' = [called |-> TRUE,
                  category |-> get_aqi_category(j),
                  valid |-> validate_aqi(j)]
    /\ UNCHANGED <<aggVars, predVars>>

ClassifyNumber == \E j \in ClassifyInputs : IsNumber(j) /\ ~clsIn.called /\ Classify(j)
ClassifyString == ~clsIn.called /\ Classify(JStr)

NextCls == ClassifyNumber \/ ClassifyString

SpecCls == Init /\ [][NextCls]_vars

---------------------------------------------------------------------------
(* The projector on its own: one AQIPredictor(growth_rate) and its calls   *)

MaxDays == 3

\* growth_rate arguments: none (0.04), 0, 0.02, 0.5 and -0.1
RateArgs == {None, Some(0), Some(1), Some(25), Some(-5)}

\* current readings: -5, 0, 50.5, 100, 480, 600
CurrentInputs ==
    {JNum(-5 * Unit), JNum(0), JNum((101 * Unit) \div 2),
     JNum(100 * Unit), JNum(480 * Unit), JNum(600 * Unit)}

\* days arguments: none (the default) and -1 .. MaxDays
DaysArgs == {None} \cup {Some(d) : d \in (-1)..MaxDays}

InitPredictor ==
    /\ InitAgg
    /\ InitCls
    /\ rateArg \in RateArgs
    /\ growth_rate = InitGrowthRate(rateArg)
    /\ model = Unfitted
    /\ predIn = NoCall
    /\ predOut = NoCall
    /\ predSummary = NoCall
    /\ refitted = FALSE

\* self.model after predict_aqi(current, days): fit replaces the fitted
\* parameters; a call that raises before or in fit leaves them as they were
ModelAfterPredict(m, current, days, rate) == PredictOn(m, current, days, rate).model

PredictAqi(current, days) ==
    /\ predIn' = [called |-> TRUE, op |-> "predict_aqi", current |-> current, days |-> days]
    /\ predOut' = predict_aqi(current, days, growth_rate)
    /\ predSummary' = NoCall
    /\ model' = ModelAfterPredict(model, current, days, growth_rate)
    /\ refitted' = (model.n > 0 /\ model' # model)
    /\ UNCHANGED <<aggVars, clsVars, rateArg, growth_rate>>

GetPredictionSummary(current, days) ==
    /\ predIn' = [called |-> TRUE, op |-> "get_prediction_summary",
                  current |-> current, days |-> days]
    /\ predSummary' = get_prediction_summary(current, days, growth_rate)
    /\ predOut' = NoCall
    /\ model' = ModelAfterPredict(model, current, days, growth_rate)
    /\ refitted' = (model.n > 0 /\ model' # model)
    /\ UNCHANGED <<aggVars, clsVars, rateArg, growth_rate>>

NextPred ==
    \/ \E c \in CurrentInputs \cup {JStr}, d \in DaysArgs : PredictAqi(c, d)
    \/ \E c \in CurrentInputs \cup {JStr}, d \in DaysArgs : GetPredictionSummary(c, d)

SpecPred == InitPredictor /\ [][NextPred]_vars

---------------------------------------------------------------------------
(* Properties of the report builder and the aggregator (under Spec)        *)

\* the display form the program is to give each name of Names
ExpectedDisplay(name) ==
    CASE name = <<"a">> -> <<"A">>
      [] name = <<"B", "c">> -> <<"B", "c">>
      [] name = <<"d", "E">> -> <<"D", "e">>

\* the fetch calls made so far: the names asked for, and the outcomes
TraceNames == [k \in 1..Len(fetchTrace) |-> fetchTrace[k][1]]
Fetched(k) == fetchTrace[k][2]

\* a fetch succeeds when it yields a numeric reading
Succeeded(k) == ~Fetched(k).raised /\ IsNumber(Fetched(k).value)
SuccIdx == {k \in 1..Len(fetchTrace) : Succeeded(k)}
Reading(k) == Fetched(k).value.n

RECURSIVE SumOver(_)
SumOver(S) ==
    IF S = {} THEN 0
    ELSE LET k == CHOOSE x \in S : TRUE IN Reading(k) + SumOver(S \ {k})

\* C1: whenever the fetch of a get_city_aqi_info call raised, whatever the
\* city and whatever the class of the error, the call returned (it did not
\* raise) the error report {city: the capitalized name, error: the error's
\* description, status: 'error'}, and nothing escaped the aggregator.
C1_FetchFailureIsReported ==
    (lastInfo.called /\ lastInfo.fetched.raised) =>
        /\ ~lastInfo.result.raised
        /\ lastInfo.result.value =
              [city |-> ExpectedDisplay(lastInfo.city),
               error |-> lastInfo.fetched.msg,
               status |-> "error"]
        /\ escaped = NoException
        /\ pc # "raised"

C1_Witness ==
    /\ lastInfo.called
    /\ lastInfo.city = <<"d", "E">>
    /\ lastInfo.fetched.raised
    /\ lastInfo.fetched.type = "ValueError"
    /\ ~lastInfo.result.raised
    /\ lastInfo.result.value.status = "error"
    /\ lastInfo.result.value.city = <<"D", "e">>

\* C2: the fetch capability is called once per requested name, in input
\* order: at every point of the loop the names fetched so far are the
\* first idx-1 names of the input, no failure ends the run early, and when
\* the report is returned the names fetched are exactly the input sequence.
C2_FetchTraceIsInput ==
    /\ pc # "raised"
    /\ pc \in {"loop", "done"} =>
          /\ idx <= Len(cities) + 1
          /\ TraceNames = SubSeq(cities, 1, idx - 1)
    /\ pc = "done" => TraceNames = cities

C2_Witness ==
    /\ pc = "done"
    /\ cities = << <<"a">>, <<"B", "c">>, <<"d", "E">> >>
    /\ TraceNames = cities
    /\ Fetched(1).raised
    /\ ~Fetched(2).raised /\ ~IsNumber(Fetched(2).value)
    /\ Succeeded(3)

\* C3: when at least one fetch succeeded, the returned summary counts the
\* successful fetches and the failed ones, and its average is the sum of
\* the readings of the successful cities divided by their number.
C3_CountsAndAverage ==
    (pc = "done" /\ SuccIdx # {}) =>
        /\ report.summary.successful_fetches = Cardinality(SuccIdx)
        /\ report.summary.failed_fetches = Len(fetchTrace) - Cardinality(SuccIdx)
        /\ report.summary.average_aqi.den > 0
        /\ report.summary.average_aqi.num * Cardinality(SuccIdx)
              = SumOver(SuccIdx) * report.summary.average_aqi.den

\* A = 40, B fails, C = 300: successes 2, failures 1, average 170
C3_Witness ==
    /\ pc = "done"
    /\ Len(cities) = 3
    /\ Succeeded(1) /\ Reading(1) = 40 * Unit
    /\ Fetched(2).raised
    /\ Succeeded(3) /\ Reading(3) = 300 * Unit
    /\ report.summary.successful_fetches = 2
    /\ report.summary.failed_fetches = 1
    /\ report.summary.average_aqi.num = 170 * Unit * report.summary.average_aqi.den

\* the first successful fetch holding an extreme reading
IsFirstMax(k) ==
    /\ k \in SuccIdx
    /\ \A j \in SuccIdx : Reading(j) <= Reading(k) /\ (Reading(j) = Reading(k) => k <= j)
IsFirstMin(k) ==
    /\ k \in SuccIdx
    /\ \A j \in SuccIdx : Reading(j) >= Reading(k) /\ (Reading(j) = Reading(k) => k <= j)

\* C4: highest (lowest) names the successful city with the greatest (least)
\* reading, and of several cities sharing that reading the one first in
\* input order.
C4_ExtremaFirstWins ==
    (pc = "done" /\ SuccIdx # {}) =>
        /\ \E k \in SuccIdx :
              /\ IsFirstMax(k)
              /\ report.summary.highest_aqi_city = <<[city |-> cities[k], aqi |-> Reading(k)]>>
        /\ \E k \in SuccIdx :
              /\ IsFirstMin(k)
              /\ report.summary.lowest_aqi_city = <<[city |-> cities[k], aqi |-> Reading(k)]>>

\* three different cities with the same reading: the first is both extremes
C4_Witness ==
    /\ pc = "done"
    /\ cities = << <<"B", "c">>, <<"a">>, <<"d", "E">> >>
    /\ SuccIdx = {1, 2, 3}
    /\ Reading(1) = Reading(2) /\ Reading(2) = Reading(3)
    /\ report.summary.highest_aqi_city[1].city = <<"B", "c">>
    /\ report.summary.lowest_aqi_city[1].city = <<"B", "c">>

\* C5: when no fetch succeeded (the empty input included) the returned
\* summary has average 0, highest and lowest none, 0 successes and as many
\* failures as names; and highest and lowest are none only then.
C5_NoSuccessSummary ==
    pc = "done" =>
        /\ SuccIdx = {} =>
              /\ report.summary.average_aqi.den > 0
              /\ report.summary.average_aqi.num = 0
              /\ report.summary.highest_aqi_city = <<>>
              /\ report.summary.lowest_aqi_city = <<>>
              /\ report.summary.successful_fetches = 0
              /\ report.summary.failed_fetches = Len(cities)
        /\ report.summary.highest_aqi_city = <<>> => report.summary.successful_fetches = 0
        /\ report.summary.lowest_aqi_city = <<>> => report.summary.successful_fetches = 0

C5_Witness ==
    /\ pc = "done"
    /\ Len(cities) = 3
    /\ \A k \in 1..3 : Fetched(k).raised
    /\ report.summary.failed_fetches = 3
    /\ report.summary.highest_aqi_city = <<>>

\* a sequence with every repetition of an earlier element left out
RECURSIVE FirstOccurrences(_)
FirstOccurrences(q) ==
    IF q = <<>> THEN <<>>
    ELSE LET front == FirstOccurrences(SubSeq(q, 1, Len(q) - 1))
             last == q[Len(q)]
         IN  IF \E k \in 1..(Len(q) - 1) : q[k] = last THEN front ELSE Append(front, last)

\* C6: the per-city collection is keyed by the requested names and iterates
\* in the order they were requested, whatever failed: its keys are the names
\* processed so far in request order (a name requested again keeps the place
\* of its first request), so for distinct names they are the input itself,
\* and every requested name, failed ones included, has an entry.
C6_CollectionInRequestOrder ==
    pc \in {"loop", "done"} =>
        /\ DictKeys(report.cities) = FirstOccurrences(SubSeq(cities, 1, idx - 1))
        /\ pc = "done" =>
              /\ \A k \in 1..Len(cities) :
                    \E e \in 1..Len(report.cities) : report.cities[e].key = cities[k]
              /\ (\A j, k \in 1..Len(cities) : cities[j] = cities[k] => j = k)
                    => DictKeys(report.cities) = cities

C6_Witness ==
    /\ pc = "done"
    /\ cities = << <<"d", "E">>, <<"a">>, <<"B", "c">> >>
    /\ Fetched(1).raised /\ Succeeded(2) /\ Fetched(3).raised
    /\ DictKeys(report.cities) = cities
    /\ report.cities[1].val.status = "error"
    /\ report.cities[2].val.status = "success"

---------------------------------------------------------------------------
(* Properties of the classifier (under SpecCls)                            *)

\* the reading r (in fiftieths) lies in the k-th band of the table
Contains(k, r) == AQI_CATEGORIES[k][1] * Unit <= r /\ r <= AQI_CATEGORIES[k][2] * Unit
BandsWith(r) == {k \in 1..Len(AQI_CATEGORIES) : Contains(k, r)}

\* C7: for a numeric value get_aqi_category never raises; it returns the
\* label and colour of the first band of the table whose inclusive range
\* holds the value and ("Unknown", "gray") when none does; 50 is Good, 51 is
\* Moderate, and every value below 0 or above 500 is Unknown.
C7_FirstContainingBand ==
    (clsIn.called /\ IsNumber(clsIn.aqi)) =>
        LET r == clsIn.aqi.n
            out == clsOut.category
        IN  /\ ~out.raised
            /\ BandsWith(r) # {} =>
                  \E k \in BandsWith(r) :
                      /\ \A j \in BandsWith(r) : k <= j
                      /\ out.value = <<AQI_CATEGORIES[k][3], AQI_CATEGORIES[k][4]>>
            /\ BandsWith(r) = {} => out.value = <<"Unknown", "gray">>
            /\ r = 50 * Unit => out.value = <<"Good", "#00e400">>
            /\ r = 51 * Unit => out.value = <<"Moderate", "#ffff00">>
            /\ (r < 0 \/ r > 500 * Unit) => out.value = <<"Unknown", "gray">>

C7_Witness ==
    /\ clsIn.called
    /\ clsIn.aqi = JNum(50 * Unit)
    /\ ~clsOut.category.raised
    /\ clsOut.category.value = <<"Good", "#00e400">>

\* C8: every value from 0 to 500, whole or not, and so every value
\* validate_aqi accepts, is classified into one of the six named bands and
\* never as Unknown.
C8_BandsCoverRange ==
    (clsIn.called /\ IsNumber(clsIn.aqi) /\ clsOut.valid) =>
        /\ ~clsOut.category.raised
        /\ clsOut.category.value[1] # "Unknown"

---------------------------------------------------------------------------
(* Properties of the projector (under SpecPred)                            *)

\* the horizon of the last call: the default when days was not given
DaysOf(call) == IF call.days = None THEN DEFAULT_PREDICTION_DAYS ELSE call.days[1]

\* x clamped into [0, 500], in 1/Unit^2
Clamped(x) ==
    IF x < 0 THEN 0 ELSE IF x > 500 * Unit * Unit THEN 500 * Unit * Unit ELSE x

\* a predict_aqi call with a numeric reading and at least one day
PredictCase ==
    /\ predIn.called
    /\ predIn.op = "predict_aqi"
    /\ IsNumber(predIn.current)
    /\ DaysOf(predIn) >= 1

SummaryCase ==
    /\ predIn.called
    /\ predIn.op = "get_prediction_summary"
    /\ IsNumber(predIn.current)
    /\ DaysOf(predIn) >= 1

\* C9: predict_aqi returns exactly `days` elements, and the element for day
\* k (k = 1..days) is current * (1 + growthRate * k) clamped into [0, 500].
C9_DayKProjection ==
    PredictCase =>
        /\ ~predOut.raised
        /\ Len(predOut.value) = DaysOf(predIn)
        /\ \A k \in 1..DaysOf(predIn) :
              predOut.value[k] = Clamped(predIn.current.n * (Unit + growth_rate * k))

\* the value the code's training signal gives day k, before clamping
RawSignal(call, k) == call.current.n * (Unit + growth_rate * (k - 1))

\* C10: every element of the series predict_aqi returns lies in [0, 500]: it
\* is 0 where the fitted value is below 0, 500 where it is above 500 and the
\* fitted value itself elsewhere; and min, max and avg of the prediction
\* summary lie in [0, 500] too.
C10_SeriesClamped ==
    /\ PredictCase =>
          /\ ~predOut.raised
          /\ \A k \in 1..Len(predOut.value) :
                /\ 0 <= predOut.value[k] /\ predOut.value[k] <= 500 * Unit * Unit
                /\ RawSignal(predIn, k) < 0 => predOut.value[k] = 0
                /\ RawSignal(predIn, k) > 500 * Unit * Unit
                      => predOut.value[k] = 500 * Unit * Unit
                /\ (0 <= RawSignal(predIn, k) /\ RawSignal(predIn, k) <= 500 * Unit * Unit)
                      => predOut.value[k] = RawSignal(predIn, k)
    /\ SummaryCase =>
          /\ ~predSummary.raised
          /\ LET v == predSummary.value
             IN  /\ \A k \in 1..Len(v.predictions) :
                       0 <= v.predictions[k] /\ v.predictions[k] <= 500 * Unit * Unit
                 /\ 0 <= v.min_predicted /\ v.min_predicted <= 500 * Unit * Unit
                 /\ 0 <= v.max_predicted /\ v.max_predicted <= 500 * Unit * Unit
                 /\ v.avg_predicted.den > 0
                 /\ 0 <= v.avg_predicted.num
                 /\ v.avg_predicted.num <= 500 * Unit * Unit * v.avg_predicted.den

\* 600 falling by 0.1 a day: fitted 600, 540, 480, returned 500, 500, 480
C10_Witness ==
    /\ PredictCase
    /\ predIn.current = JNum(600 * Unit)
    /\ growth_rate = -5
    /\ DaysOf(predIn) = 3
    /\ ~predOut.raised
    /\ RawSignal(predIn, 1) > 500 * Unit * Unit
    /\ predOut.value = <<500 * Unit * Unit, 500 * Unit * Unit, 480 * Unit * Unit>>

\* a get_prediction_summary call that returned a summary: its series, its
\* first and its last element
SummarySeries == predSummary.value.predictions
FirstOf(q) == q[1]
LastOf(q) == q[Len(q)]

\* C11 as stated: for every current value above 0 (500 and more included),
\* every growth rate above 0 and every days >= 1 (1 included) the summary's
\* trend is "increasing".
C11_AlwaysIncreasing ==
    (SummaryCase /\ predIn.current.n > 0 /\ growth_rate > 0) =>
        /\ ~predSummary.raised
        /\ predSummary.value.trend = "increasing"

\* C11 as amended: the trend is "increasing" exactly when the last element
\* of the clamped series is strictly greater than the first and "decreasing"
\* otherwise; for a current value above 0 and a rate above 0 it is
\* "increasing" when days >= 2 and the current value is below 500, and
\* "decreasing" when days = 1 or the current value is 500 or more (the
\* series is then constant).
C11_TrendIsStrictComparison ==
    SummaryCase =>
        /\ ~predSummary.raised
        /\ LastOf(SummarySeries) > FirstOf(SummarySeries)
              => predSummary.value.trend = "increasing"
        /\ LastOf(SummarySeries) <= FirstOf(SummarySeries)
              => predSummary.value.trend = "decreasing"
        /\ (predIn.current.n > 0 /\ growth_rate > 0) =>
              /\ (DaysOf(predIn) >= 2 /\ predIn.current.n < 500 * Unit)
                    => predSummary.value.trend = "increasing"
              /\ (DaysOf(predIn) = 1 \/ predIn.current.n >= 500 * Unit)
                    => predSummary.value.trend = "decreasing"

\* 600 growing by 0.04 a day over 3 days: 500, 500, 500 and "decreasing"
C11_Witness ==
    /\ SummaryCase
    /\ predIn.current = JNum(600 * Unit)
    /\ growth_rate = 2
    /\ DaysOf(predIn) = 3
    /\ ~predSummary.raised
    /\ SummarySeries = <<500 * Unit * Unit, 500 * Unit * Unit, 500 * Unit * Unit>>
    /\ predSummary.value.trend = "decreasing"

\* C12: a predictor constructed with growth rate 0 projects a constant
\* series, every element the current value clamped into [0, 500], and its
\* summary's trend is "decreasing".
C12_ZeroRateIsConstant ==
    rateArg = <<0>> =>
        /\ PredictCase =>
              /\ ~predOut.raised
              /\ \A k \in 1..Len(predOut.value) :
                    predOut.value[k] = Clamped(predIn.current.n * Unit)
        /\ SummaryCase =>
              /\ ~predSummary.raised
              /\ \A k \in 1..Len(SummarySeries) :
                    SummarySeries[k] = Clamped(predIn.current.n * Unit)
              /\ predSummary.value.trend = "decreasing"

\* what the call of this state returns on a predictor just constructed with
\* the same growth_rate argument, whose model has never been fitted
OnFreshInstance ==
    PredictOn(Unfitted, predIn.current, predIn.days, InitGrowthRate(rateArg)).out

\* C13: whatever calls the predictor served before, predict_aqi returns what
\* it returns on a fresh instance with the same growth rate, and so does the
\* series of get_prediction_summary: the outcome of a call is a function of
\* its arguments alone.
C13_HistoryIndependent ==
    predIn.called =>
        /\ predIn.op = "predict_aqi" => predOut = OnFreshInstance
        /\ predIn.op = "get_prediction_summary" =>
              /\ OnFreshInstance.raised => predSummary = OnFreshInstance
              /\ ~OnFreshInstance.raised =>
                    /\ ~predSummary.raised
                    /\ SummarySeries = OnFreshInstance.value

\* predict_aqi(100, 3) on a default predictor whose model an earlier call
\* with other arguments had fitted: 100, 104, 108 as on a fresh one
C13_Witness ==
    /\ PredictCase
    /\ refitted
    /\ rateArg = None
    /\ predIn.current = JNum(100 * Unit)
    /\ predIn.days = <<3>>
    /\ ~predOut.raised
    /\ predOut.value = <<100 * Unit * Unit, 104 * Unit * Unit, 108 * Unit * Unit>>

\* C15: predict_aqi with days <= 0 fails with an error raised to its caller
\* and no call returns an empty series; with days omitted the series has
\* the 7 elements of the default horizon.
C15_NonPositiveDaysRejected ==
    (predIn.called /\ predIn.op = "predict_aqi" /\ IsNumber(predIn.current)) =>
        /\ (predIn.days # <<>> /\ predIn.days[1] <= 0) => predOut.raised
        /\ ~predOut.raised => Len(predOut.value) >= 1
        /\ predIn.days = <<>> => (~predOut.raised /\ Len(predOut.value) = 7)

C15_Witness ==
    /\ predIn.called
    /\ predIn.op = "predict_aqi"
    /\ predIn.current = JNum(100 * Unit)
    /\ predIn.days = <<-1>>
    /\ predOut.raised
    /\ predOut.type = "ValueError"

---------------------------------------------------------------------------
(* Further properties of the report builder and the aggregator (under Spec) *)

\* a get_city_aqi_info call whose fetch returned a numeric reading
InfoOfNumber ==
    /\ lastInfo.called
    /\ ~lastInfo.fetched.raised
    /\ IsNumber(lastInfo.fetched.value)

\* a get_city_aqi_info call whose fetch returned a string
InfoOfString ==
    /\ lastInfo.called
    /\ ~lastInfo.fetched.raised
    /\ ~IsNumber(lastInfo.fetched.value)

\* the category and colour the program is to give each reading of the feed
ExpectedCategory(v) ==
    CASE v = 40 * Unit -> <<"Good", "#00e400">>
      [] v = (101 * Unit) \div 2 -> <<"Unknown", "gray">>
      [] v = 300 * Unit -> <<"Very Unhealthy", "#8f3f97">>

\* the series predict_aqi gives v with 7 days and rate 0.04: it starts at v
\* and grows by 0.04 * v a day
ExpectedForecast(v) ==
    [k \in 1..7 |-> Clamped(v * (Unit + ((4 * Unit) \div 100) * (k - 1)))]

\* C14: on a fetch that returned the value v, get_city_aqi_info returns a
\* success report with the capitalized name, current value v, the category
\* and colour of v, the forecast of v over the default 7 days at the default
\* rate 0.04, and a summary whose series, min, max and avg are those of that
\* same forecast.
C14_SuccessReport ==
    InfoOfNumber =>
        /\ ~lastInfo.result.raised
        /\ LET v == lastInfo.fetched.value.n
               info == lastInfo.result.value
               series == info.predictions
               summary == info.prediction_summary
           IN  /\ info.status = "success"
               /\ info.city = ExpectedDisplay(lastInfo.city)
               /\ info.current_aqi = v
               /\ <<info.category, info.color>> = get_aqi_category(JNum(v)).value
               /\ <<info.category, info.color>> = ExpectedCategory(v)
               /\ Return(series) = PredictOn(Unfitted, JNum(v),
                                             Some(DEFAULT_PREDICTION_DAYS),
                                             PREDICTION_GROWTH_RATE).out
               /\ series = ExpectedForecast(v)
               /\ summary.predictions = series
               /\ \A k \in 1..7 : summary.min_predicted <= series[k]
               /\ \E k \in 1..7 : summary.min_predicted = series[k]
               /\ \A k \in 1..7 : summary.max_predicted >= series[k]
               /\ \E k \in 1..7 : summary.max_predicted = series[k]
               /\ summary.avg_predicted.den > 0
               /\ summary.avg_predicted.num * 7 = SumSeq(series) * summary.avg_predicted.den

\* "dE" at 300: De, Very Unhealthy, forecast 300 .. 372
C14_Witness ==
    /\ InfoOfNumber
    /\ lastInfo.city = <<"d", "E">>
    /\ lastInfo.fetched.value.n = 300 * Unit
    /\ ~lastInfo.result.raised
    /\ lastInfo.result.value.city = <<"D", "e">>
    /\ lastInfo.result.value.category = "Very Unhealthy"
    /\ lastInfo.result.value.predictions[1] = 300 * Unit * Unit
    /\ lastInfo.result.value.predictions[7] = 372 * Unit * Unit
    /\ lastInfo.result.value.prediction_summary.max_predicted = 372 * Unit * Unit

\* the entries of the per-city collection with a given status
EntriesWith(status) ==
    {e \in 1..Len(report.cities) : report.cities[e].val.status = status}

\* the city an extreme names has a success entry holding the same value
BackedByEntry(extreme) ==
    extreme # <<>> =>
        \E e \in EntriesWith("success") :
            /\ report.cities[e].key = extreme[1].city
            /\ report.cities[e].val.current_aqi = extreme[1].aqi

\* C16: in the returned report, for every input (names requested more than
\* once included), successes + failures = total_cities = length of the
\* input, the collection holds as many success entries as successes and as
\* many failure entries as failures, and the cities named highest and
\* lowest have success entries with those values.
C16_SummaryMatchesCollection ==
    pc = "done" =>
        /\ report.summary.successful_fetches + report.summary.failed_fetches
              = report.summary.total_cities
        /\ report.summary.total_cities = Len(cities)
        /\ Cardinality(EntriesWith("success")) = report.summary.successful_fetches
        /\ Cardinality(EntriesWith("error")) = report.summary.failed_fetches
        /\ BackedByEntry(report.summary.highest_aqi_city)
        /\ BackedByEntry(report.summary.lowest_aqi_city)

\* the (city, reading) pairs of the successful fetches, in call order
RECURSIVE SuccessfulPairs(_)
SuccessfulPairs(n) ==
    IF n = 0 THEN <<>>
    ELSE IF Succeeded(n)
         THEN Append(SuccessfulPairs(n - 1), <<TraceNames[n], Reading(n)>>)
         ELSE SuccessfulPairs(n - 1)

\* C17: a fetch that returns a value the classifier cannot compare (a
\* string) still ends in an error report, not in a raised error; the
\* aggregator counts the city as a failure, keeps it out of the values the
\* average and the extremes are taken from, and goes on to the other cities.
C17_LateFailureIsReported ==
    /\ InfoOfString =>
          /\ ~lastInfo.result.raised
          /\ lastInfo.result.value =
                [city |-> ExpectedDisplay(lastInfo.city),
                 error |-> "'<=' not supported between instances of 'int' and 'str'",
                 status |-> "error"]
          /\ pc # "raised"
    /\ pc \in {"loop", "done"} =>
          /\ valid_aqis = SuccessfulPairs(Len(fetchTrace))
          /\ report.summary.failed_fetches = Len(fetchTrace) - Cardinality(SuccIdx)
    /\ pc = "done" => TraceNames = cities

\* a string for the first city, readings for the two after it
C17_Witness ==
    /\ pc = "done"
    /\ cities = << <<"a">>, <<"B", "c">>, <<"d", "E">> >>
    /\ ~Fetched(1).raised /\ ~IsNumber(Fetched(1).value)
    /\ Succeeded(2) /\ Succeeded(3)
    /\ report.cities[1].val.status = "error"
    /\ report.summary.failed_fetches = 1
    /\ report.summary.successful_fetches = 2
    /\ report.summary.average_aqi.num * 2
          = (Reading(2) + Reading(3)) * report.summary.average_aqi.den

============================================================================
